---- MODULE Spec2Model ----
(***************************************************************************)
(* Host-side combat resolution and command transport of the player module  *)
(* (src/src/game/player.rs).  Angles are integers in tenths of a degree,   *)
(* positions are integer pixel vectors, u8 quantities keep their width.    *)
(***************************************************************************)
EXTENDS Integers, Sequences, FiniteSets, TLC

(* ---------------------------------------------------------------- bounds *)
NumPlayers == 2
BufLen == 2
MaxTick == 1
MaxCalls == 2

(* ------------------------------------------------------------- constants *)
PLAYER_DEFAULT_HP == 100
SWORD_DAMAGE == 40
SWORD_LENGTH == 90
SWORD_DEGREES == 700
ATTACK_BITFLAG == 1
SPAWN_BITFLAG == 2
SHIELD_BITFLAG == 4
KILL_SCORE == 20
U8_MAX == 255
DAMAGE_DEALT_UP == 10
MEAT_VALUE == 25
(* DEFAULT_COOLDOWN (line 22, 0.8 s) in units of 0.4 s of frame time *)
DEFAULT_COOLDOWN == 2
DELAY == 1

Players == 0 .. (NumPlayers - 1)
Slots == 0 .. (BufLen - 1)
Ticks == 0 .. MaxTick

(* Option<T>: None is the empty tuple, Some(v) the one-element tuple <<v>> *)
None == << >>
Some(v) == << v >>
IsSome(o) == o # << >>
Unwrap(o) == o[1]

(* ---------------------------------------------------- CircularBuffer<T> *)
NewBuffer == [i \in Slots |-> None]
Get(buf, t) == buf[t % BufLen]
Set(buf, t, v) == [buf EXCEPT ![t % BufLen] = v]

(* ---- variants of the code, used to show that the properties below ---- *)
(* ---- tell the code from its near misses                            ---- *)
(* u8 addition that wraps instead of saturating *)
WrapAdd8(a, b) == (a + b) % 256
(* the raw angle difference, not brought back into (-180, 180] *)
RawAngle(angle_diff) == angle_diff

(* ------------------------------------------------------- u8 arithmetic *)
SatAdd8(a, b) == IF a + b > U8_MAX THEN U8_MAX ELSE a + b
SatMul8(a, b) == IF a * b > U8_MAX THEN U8_MAX ELSE a * b
SatSub8(a, b) == IF a - b < 0 THEN 0 ELSE a - b
BitSet(events, flag) == (events \div flag) % 2 = 1

(* --------------------------------------------------------- f32 geometry *)
Vec(x, y) == [x |-> x, y |-> y]
Abs(n) == IF n < 0 THEN -n ELSE n

(* y.atan2(x) in tenths of a degree, for the difference vectors the model *)
(* uses: the axes, the diagonals, and (-57, +-1), whose bearing of        *)
(* +-178.995 degrees is rounded to +-179.0                                *)
Atan2(y, x) ==
    CASE y = 0 /\ x >= 0 -> 0
      [] y = 0 /\ x < 0 -> 1800
      [] x = 0 /\ y > 0 -> 900
      [] x = 0 /\ y < 0 -> -900
      [] x > 0 /\ y = x -> 450
      [] x > 0 /\ y = -x -> -450
      [] x < 0 /\ y = -x -> 1350
      [] x < 0 /\ y = x -> -1350
      [] x = -57 /\ y = -1 -> -1790
      [] x = -57 /\ y = 1 -> 1790

(* angle_diff.sin().atan2(angle_diff.cos()): the representative of the    *)
(* angle in (-180, 180] degrees                                           *)
SinAtan2Cos(angle_diff) ==
    LET m == angle_diff % 3600
    IN IF m > 1800 THEN m - 3600 ELSE m

(* player_pos.distance(target_pos) > SWORD_LENGTH, compared on squares    *)
DistanceExceeds(a, b, len) ==
    (a.x - b.x) * (a.x - b.x) + (a.y - b.y) * (a.y - b.y) > len * len

CombatAngle(player_pos, target_pos) ==
    Atan2(target_pos.y - player_pos.y, target_pos.x - player_pos.x)

(* lines 403-407: enemy is hit unless too far or not in sector *)
EnemyInSwing(player_pos, sword_angle, enemy_pos) ==
    LET combat_angle == CombatAngle(player_pos, enemy_pos)
        angle_diff == SinAtan2Cos(sword_angle - combat_angle)
    IN IF DistanceExceeds(player_pos, enemy_pos, SWORD_LENGTH) THEN FALSE
       ELSE IF Abs(angle_diff) > SWORD_DEGREES THEN FALSE
       ELSE TRUE

(* lines 417-423: chest *)
ChestInSwing(player_pos, sword_angle, chest_pos) ==
    IF DistanceExceeds(player_pos, chest_pos, SWORD_LENGTH) THEN FALSE
    ELSE LET combat_angle == CombatAngle(player_pos, chest_pos)
             angle_diff == SinAtan2Cos(sword_angle - combat_angle)
         IN IF Abs(angle_diff) > SWORD_DEGREES THEN FALSE ELSE TRUE

(* lines 447-452 and 488-493: target player *)
TargetInSwing(player_pos, sword_angle, target_pos) ==
    IF DistanceExceeds(player_pos, target_pos, SWORD_LENGTH) THEN FALSE
    ELSE LET combat_angle == CombatAngle(player_pos, target_pos)
             angle_diff == SinAtan2Cos(sword_angle - combat_angle)
         IN IF Abs(angle_diff) > SWORD_DEGREES THEN FALSE ELSE TRUE

(* lines 409, 454, 495: damage of one hit from the DamageDealtUp stacks *)
Damage(stacks) == SatAdd8(SWORD_DAMAGE, SatMul8(stacks, DAMAGE_DEALT_UP))

(* lines 410, 455, 496: hp.saturating_sub(damage) *)
HpAfterHit(hp, stacks) == SatSub8(hp, Damage(stacks))

(* ------------------------------------------------------------- the state *)
VARIABLES
    tick,             \* TickNum: the current tick
    order,            \* the iteration order of the Player query
    pb, db, eb, hb,   \* PosBuffer, DirBuffer, EventBuffer, HpBuffer per player
    pb_time,          \* tick recorded by PosBuffer::set_with_time, per slot
    shield,           \* PlayerShield.active per player
    stats,            \* Stats per player
    spu,              \* StoredPowerUps per player
    enemies,          \* enemy entities: PosBuffer, HpBuffer, LastAttacker
    chests,           \* item chests: Transform translation and Health.current
    attack_events,    \* Events<AttackEvent> not yet read by attack_simulate
    spawn_events,     \* Events<SpawnEvent> not yet read by spawn_simulate
    aborted,          \* a system panicked: the host process is gone
    overflow_checks,  \* the build traps on integer overflow (debug profile)
    pending,          \* fixed-tick systems that have still to run in this tick
    last,             \* record of the most recent handler run (history)
    alt,              \* second run of attack_simulate on buffers that differ off slot s
    geo,              \* inputs and results of the hit classification
    dmg,              \* inputs and results of the damage arithmetic
    calls,            \* number of handle_usercmd_events runs so far
    powerups,         \* PowerUp entities on the map: kind and translation
    tf,               \* Transform translation per player
    cooldown,         \* number of AttackSpeedUp factors in the Cooldown duration
    is_host,          \* the role of this process (run_if(is_host) / run_if(is_client))
    local,            \* id of the player that carries LocalPlayer
    health,           \* Health component per player: current, max, dead
    notified,         \* notifications raised so far: pickup, death, spawn
    input,            \* the local player's captured input per tick, and the button
    timer             \* time left on the local player's Cooldown timer

vars == << tick, order, pb, db, eb, hb, pb_time, shield, stats, spu, enemies,
           chests, attack_events, spawn_events, aborted, overflow_checks,
           pending, last, alt, geo, dmg, calls, powerups, tf, cooldown,
           is_host, local, health, notified, input, timer >>

EnemyIds == {0}
ChestIds == {0}
PowerUpTypes == {"Meat", "DamageDealtUp", "DamageReductionUp", "AttackSpeedUp", "MovementSpeedUp"}

(* spawn_players: the components every player slot is created with *)
NewStats ==
    [score |-> 0, enemies_killed |-> 0, players_killed |-> 0,
     camps_captured |-> 0, deaths |-> 0, kd_ratio |-> << 0, 1 >>]
NewPowerUps == [t \in PowerUpTypes |-> 0]
NewHealth == [current |-> 0, max |-> PLAYER_DEFAULT_HP, dead |-> TRUE]
(* the input history of the local player, one InputState per slot, and the *)
(* pressed state of the left button in Input<MouseButton>                  *)
NewInput == [hist |-> [i \in Slots |-> [attack |-> FALSE]], left |-> FALSE]
NoNotes == [pickup |-> 0, death |-> 0, spawn |-> 0]

(* kills as f32 / deaths as f32, kept as the exact fraction <<num, den>> *)
Ratio(num, den) == << num, den >>
Whole(num) == << num, 1 >>

(* The world attack_simulate works on, as one record *)
World ==
    [pb |-> pb, db |-> db, hb |-> hb, shield |-> shield, stats |-> stats,
     spu |-> spu, enemies |-> enemies, chests |-> chests, aborted |-> aborted,
     hits |-> {}]

(* ------------------------------------------------------ attack_simulate *)
(* lines 396-415: one enemy in the swing of player pl *)
EnemyBody(W, ev, c, pl, e, player_pos, sword_angle) ==
    LET enemy_pos == Get(W.enemies[e].pb, ev.seq_num)
        slot == Get(W.enemies[e].hb, c)
    IN IF ~IsSome(enemy_pos) THEN W
       ELSE IF ~IsSome(slot) THEN [W EXCEPT !.aborted = TRUE]
       ELSE IF Unwrap(slot) <= 0 THEN W
       ELSE IF ~EnemyInSwing(player_pos, sword_angle, Unwrap(enemy_pos)) THEN W
       ELSE [W EXCEPT !.enemies[e].last_attacker = Some(pl),
                      !.enemies[e].hb = Set(@, c, Some(HpAfterHit(Unwrap(slot), W.spu[pl]["DamageDealtUp"]))),
                      !.hits = @ \cup {<< "enemy", e >>}]

(* lines 416-432: one chest in the swing of player pl *)
ChestBody(W, pl, ch, player_pos, sword_angle) ==
    IF ~ChestInSwing(player_pos, sword_angle, W.chests[ch].pos) THEN W
    ELSE [W EXCEPT !.chests[ch].current = 0,
                   !.hits = @ \cup {<< "chest", ch >>}]

RECURSIVE EnemyLoop(_, _, _, _, _, _, _)
EnemyLoop(W, ev, c, pl, todo, player_pos, sword_angle) ==
    IF todo = {} \/ W.aborted THEN W
    ELSE LET e == CHOOSE x \in todo : \A y \in todo : x <= y
         IN EnemyLoop(EnemyBody(W, ev, c, pl, e, player_pos, sword_angle),
                      ev, c, pl, todo \ {e}, player_pos, sword_angle)

RECURSIVE ChestLoop(_, _, _, _, _)
ChestLoop(W, pl, todo, player_pos, sword_angle) ==
    IF todo = {} THEN W
    ELSE LET ch == CHOOSE x \in todo : \A y \in todo : x <= y
         IN ChestLoop(ChestBody(W, pl, ch, player_pos, sword_angle),
                      pl, todo \ {ch}, player_pos, sword_angle)

(* lines 388-433: the attacker against enemies and chests *)
AttackerBody(W, ev, c, pl) ==
    IF pl # ev.id THEN W
    ELSE IF W.shield[pl] THEN W
    ELSE LET sword_angle == Get(W.db[pl], ev.seq_num)
             player_pos == Get(W.pb[pl], ev.seq_num)
         IN IF ~IsSome(sword_angle) \/ ~IsSome(player_pos) THEN W
            ELSE LET W1 == EnemyLoop(W, ev, c, pl, EnemyIds, Unwrap(player_pos), Unwrap(sword_angle))
                 IN IF W1.aborted THEN W1
                    ELSE ChestLoop(W1, pl, ChestIds, Unwrap(player_pos), Unwrap(sword_angle))

(* lines 458-464 and 499-505: the target's deaths and ratio *)
TargetDied(st) ==
    LET deaths == SatAdd8(st.deaths, 1)
    IN [st EXCEPT !.deaths = deaths,
                  !.kd_ratio = IF deaths # 0 THEN Ratio(st.players_killed, deaths)
                               ELSE Whole(st.players_killed)]

(* variant: the kill is counted and the ratio is left as it was *)
AttackerKilledStale(st) ==
    [st EXCEPT !.players_killed = SatAdd8(@, 1)]

(* lines 465-471 and 506-512: the attacker's kills and ratio *)
AttackerKilled(st) ==
    LET killed == SatAdd8(st.players_killed, 1)
    IN [st EXCEPT !.players_killed = killed,
                  !.kd_ratio = IF st.deaths # 0 THEN Ratio(killed, st.deaths)
                               ELSE Whole(killed)]

(* lines 457-473: kill credit of the first pass *)
CreditFirst(W, a, t) ==
    [W EXCEPT !.stats[t] = TargetDied(@),
              !.stats[a] = [AttackerKilled(@) EXCEPT !.score = SatAdd8(@, KILL_SCORE)]]

(* lines 498-514: kill credit of the second pass; score += 20 is a plain  *)
(* addition: it traps under overflow checks and wraps without them        *)
CreditSecond(W, a, t) ==
    LET W1 == [W EXCEPT !.stats[t] = TargetDied(@), !.stats[a] = AttackerKilled(@)]
        sum == W1.stats[a].score + KILL_SCORE
    IN IF sum <= U8_MAX THEN [W1 EXCEPT !.stats[a].score = sum]
       ELSE IF overflow_checks THEN [W1 EXCEPT !.aborted = TRUE]
       ELSE [W1 EXCEPT !.stats[a].score = sum % (U8_MAX + 1)]

(* lines 454-456 and 495-497: the hit itself *)
StrikeTarget(W, c, a, t) ==
    LET slot == Get(W.hb[t], c)
    IN IF ~IsSome(slot) THEN [W EXCEPT !.aborted = TRUE]
       ELSE [W EXCEPT !.hb[t] = Set(@, c, Some(HpAfterHit(Unwrap(slot), W.spu[a]["DamageDealtUp"]))),
                      !.hits = @ \cup {<< "player", t >>}]

(* variant: only the attacker's shield is consulted *)
PairHitsUnshielded(W, ev, a, t) ==
    IF a # ev.id THEN FALSE
    ELSE IF W.shield[a] THEN FALSE
    ELSE LET sword_angle == Get(W.db[a], ev.seq_num)
             player_pos == Get(W.pb[a], ev.seq_num)
         IN IF ~IsSome(sword_angle) \/ ~IsSome(player_pos) THEN FALSE
            ELSE IF t = ev.id THEN FALSE
            ELSE LET target_pos == Get(W.pb[t], ev.seq_num)
                 IN IF ~IsSome(target_pos) THEN FALSE
                    ELSE TargetInSwing(Unwrap(player_pos), Unwrap(sword_angle), Unwrap(target_pos))

(* lines 436-452 and 477-493: does the pair (a attacks t) come to a hit *)
PairHits(W, ev, a, t) ==
    IF a # ev.id THEN FALSE
    ELSE IF W.shield[t] \/ W.shield[a] THEN FALSE
    ELSE LET sword_angle == Get(W.db[a], ev.seq_num)
             player_pos == Get(W.pb[a], ev.seq_num)
         IN IF ~IsSome(sword_angle) \/ ~IsSome(player_pos) THEN FALSE
            ELSE IF t = ev.id THEN FALSE
            ELSE LET target_pos == Get(W.pb[t], ev.seq_num)
                 IN IF ~IsSome(target_pos) THEN FALSE
                    ELSE TargetInSwing(Unwrap(player_pos), Unwrap(sword_angle), Unwrap(target_pos))

(* variant: the first pass reads the history at the current tick *)
FirstPassBodyAtNow(W, ev, c, a, t) ==
    IF ~PairHits(W, [ev EXCEPT !.seq_num = c], a, t) THEN W
    ELSE LET W1 == StrikeTarget(W, c, a, t)
         IN IF W1.aborted THEN W1
            ELSE IF Unwrap(Get(W1.hb[t], c)) <= 0 THEN CreditFirst(W1, a, t)
            ELSE W1

(* lines 435-474: body of the first pass, pair [attacker, target] *)
FirstPassBody(W, ev, c, a, t) ==
    IF ~PairHits(W, ev, a, t) THEN W
    ELSE LET W1 == StrikeTarget(W, c, a, t)
         IN IF W1.aborted THEN W1
            ELSE IF Unwrap(Get(W1.hb[t], c)) <= 0 THEN CreditFirst(W1, a, t)
            ELSE W1

(* variant: the second pass takes the first of the pair for the attacker *)
SecondPassBodyAsFirst(W, ev, c, t, a) == FirstPassBody(W, ev, c, t, a)

(* lines 476-515: body of the second pass, pair [target, attacker] *)
SecondPassBody(W, ev, c, t, a) ==
    IF ~PairHits(W, ev, a, t) THEN W
    ELSE LET W1 == StrikeTarget(W, c, a, t)
         IN IF W1.aborted THEN W1
            ELSE IF Unwrap(Get(W1.hb[t], c)) <= 0 THEN CreditSecond(W1, a, t)
            ELSE W1

(* iter_combinations_mut: the pairs of positions i < j of the query, in   *)
(* lexicographic order; NextPair steps from one pair to the following one  *)
NextPair(n, i, j) == IF j < n THEN << i, j + 1 >> ELSE << i + 1, i + 2 >>

RECURSIVE FirstPass(_, _, _, _, _, _)
FirstPass(W, ev, c, ord, i, j) ==
    IF j > Len(ord) \/ W.aborted THEN W
    ELSE LET nx == NextPair(Len(ord), i, j)
         IN FirstPass(FirstPassBody(W, ev, c, ord[i], ord[j]), ev, c, ord, nx[1], nx[2])

RECURSIVE SecondPass(_, _, _, _, _, _)
SecondPass(W, ev, c, ord, i, j) ==
    IF j > Len(ord) \/ W.aborted THEN W
    ELSE LET nx == NextPair(Len(ord), i, j)
         IN SecondPass(SecondPassBody(W, ev, c, ord[i], ord[j]), ev, c, ord, nx[1], nx[2])

RECURSIVE AttackerLoop(_, _, _, _, _)
AttackerLoop(W, ev, c, ord, k) ==
    IF k > Len(ord) \/ W.aborted THEN W
    ELSE AttackerLoop(AttackerBody(W, ev, c, ord[k]), ev, c, ord, k + 1)

(* lines 387-516: one AttackEvent *)
ResolveAttack(W, ev, c, ord) ==
    LET W1 == AttackerLoop(W, ev, c, ord, 1)
        W2 == FirstPass(W1, ev, c, ord, 1, 2)
    IN SecondPass(W2, ev, c, ord, 1, 2)

(* lines 378-517: every AttackEvent the reader has not seen yet *)
RECURSIVE AttackSimulate(_, _, _, _)
AttackSimulate(W, evs, c, ord) ==
    IF evs = << >> \/ W.aborted THEN W
    ELSE AttackSimulate(ResolveAttack(W, Head(evs), c, ord), Tail(evs), c, ord)

(* ------------------------------------------------- state after creation *)
(* spawn_players (lines 129-165): empty buffers, zero stats, shield off *)
InitPlayers ==
    /\ pb = [p \in Players |-> NewBuffer]
    /\ db = [p \in Players |-> NewBuffer]
    /\ eb = [p \in Players |-> NewBuffer]
    /\ hb = [p \in Players |-> NewBuffer]
    /\ pb_time = [p \in Players |-> NewBuffer]
    /\ shield = [p \in Players |-> FALSE]
    /\ stats = [p \in Players |-> NewStats]
    /\ spu = [p \in Players |-> NewPowerUps]
    /\ tf = [p \in Players |-> Vec(0, 0)]
    /\ cooldown = [p \in Players |-> 0]
    /\ powerups = << >>
    /\ health = [p \in Players |-> NewHealth]
    /\ input = NewInput
    /\ timer = DEFAULT_COOLDOWN

(* Init<Events<AttackEvent>>, Init<Events<SpawnEvent>> (lines 108-109) *)
InitEvents ==
    /\ attack_events = << >>
    /\ spawn_events = << >>
    /\ notified = NoNotes

NoEnemies == [e \in EnemyIds |-> [pb |-> NewBuffer, hb |-> NewBuffer, last_attacker |-> None]]
NoChests == [ch \in ChestIds |-> [pos |-> Vec(1000, 1000), current |-> 1]]
Identity == [i \in 1 .. NumPlayers |-> i - 1]
Reverse == [i \in 1 .. NumPlayers |-> NumPlayers - i]
NoRun == [op |-> "none"]
NoGeo == [done |-> TRUE]
NoDmg == [done |-> TRUE]

(* ============================ the fixed-tick schedule ================== *)
(* the before/after constraints registered in PlayerPlugin::build          *)
(* (lines 91-103); a pair << a, b >> says that a runs before b             *)
Before ==
    {<< "attack_host", "attack_simulate" >>,
     << "update_buffer", "attack_host" >>,
     << "attack_simulate", "attack_draw" >>,
     << "spawn_simulate", "health_simulate" >>,
     << "health_simulate", "health_draw" >>}
(* a system may run once every system ordered before it has run this tick *)
Ready(sys) == sys \in pending /\ \A b \in pending : << b, sys >> \notin Before

(* ============================ the attack_simulate system ============== *)
(* Buffers that agree with buf at the slot of tick s and differ at every   *)
(* other slot                                                              *)
OffSlot(buf, s, junk) ==
    [i \in Slots |-> IF i = s % BufLen THEN buf[i]
                     ELSE IF IsSome(buf[i]) THEN None ELSE Some(junk)]
OffSlotHp(buf, s) ==
    [i \in Slots |-> IF i = s % BufLen THEN buf[i]
                     ELSE IF IsSome(buf[i]) /\ Unwrap(buf[i]) > 0 THEN Some(0)
                     ELSE Some(PLAYER_DEFAULT_HP)]
(* the world with position and direction history changed off slot s *)
AltWorld(W, s) ==
    [W EXCEPT !.pb = [p \in Players |-> OffSlot(W.pb[p], s, Vec(0, 0))],
              !.db = [p \in Players |-> OffSlot(W.db[p], s, 0)],
              !.enemies = [e \in EnemyIds |-> [W.enemies[e] EXCEPT !.pb = OffSlot(@, s, Vec(0, 0))]]]
(* ... and with the health history changed off slot s as well *)
AltWorldHp(W, s) ==
    [AltWorld(W, s) EXCEPT
        !.hb = [p \in Players |-> OffSlotHp(W.hb[p], s)],
        !.enemies = [e \in EnemyIds |->
                        [pb |-> OffSlot(W.enemies[e].pb, s, Vec(0, 0)),
                         hb |-> OffSlotHp(W.enemies[e].hb, s),
                         last_attacker |-> W.enemies[e].last_attacker]]]

(* attack_simulate, scheduled once per fixed tick (lines 91-96) *)
AttackSimulateSys ==
    /\ ~aborted
    /\ Ready("attack_simulate")
    /\ LET W == AttackSimulate(World, attack_events, tick, order)
       IN /\ hb' = W.hb
          /\ stats' = W.stats
          /\ enemies' = W.enemies
          /\ chests' = W.chests
          /\ aborted' = W.aborted
          /\ last' = IF alt.op = "none"
                     THEN [op |-> "attack_simulate", events |-> attack_events]
                     ELSE [op |-> "attack_simulate", events |-> attack_events,
                           c |-> tick, pre |-> World, hits |-> W.hits]
    /\ alt' = IF alt.op = "none" \/ attack_events = << >> THEN alt
              ELSE LET s == Head(attack_events).seq_num
                       A == AttackSimulate(AltWorld(World, s), attack_events, tick, order)
                       H == AttackSimulate(AltWorldHp(World, s), attack_events, tick, order)
                   IN [op |-> "attack_simulate", hits |-> A.hits, aborted |-> A.aborted,
                       hits_hp |-> H.hits, aborted_hp |-> H.aborted]
    /\ attack_events' = << >>
    /\ pending' = pending \ {"attack_simulate"}
    /\ UNCHANGED << tick, order, pb, db, eb, pb_time, shield, spu, spawn_events,
                    overflow_checks, geo, dmg, calls, powerups, tf,
                    cooldown,
                    is_host, local, health, notified, input, timer >>

(* ---- a host state in the middle of a match, one AttackEvent queued ---- *)
Home(p) == Vec(50 * p, 0)
EnemyHome == Vec(50, 50)
ChestHome == Vec(50, -50)
AtTick(t, v) == Set(NewBuffer, t, v)
Veteran ==
    [score |-> 240, enemies_killed |-> 0, players_killed |-> 12,
     camps_captured |-> 0, deaths |-> 3, kd_ratio |-> Ratio(12, 3)]
StatsChoices == {<< NewStats, FALSE >>, << Veteran, FALSE >>, << Veteran, TRUE >>}
TickChoices == {<< 0, 0 >>, << 0, MaxTick >>, << MaxTick, 0 >>}
AttackerChoices ==
    {<< Some(1), Some(0) >>, << Some(1), Some(1800) >>, << None, Some(0) >>, << Some(1), None >>}
HpChoices == {None, Some(0), Some(20), Some(PLAYER_DEFAULT_HP)}
EnemyChoices ==
    {<< Some(EnemyHome), Some(50) >>, << Some(EnemyHome), None >>,
     << Some(EnemyHome), Some(0) >>, << None, Some(50) >>}

MidMatch ==
    /\ geo = NoGeo /\ dmg = NoDmg
    /\ aborted = FALSE
    /\ spawn_events = << >>
    /\ cooldown = [p \in Players |-> 0]
    /\ health = [p \in Players |-> NewHealth]
    /\ input = NewInput /\ notified = NoNotes
    /\ timer = DEFAULT_COOLDOWN
    /\ is_host = TRUE /\ local = 0
    /\ last = NoRun
    /\ alt = [op |-> "armed"]
    /\ calls = 0
    /\ order \in {Identity, Reverse}
    /\ \E id \in Players, sc \in TickChoices, st \in StatsChoices, en \in EnemyChoices,
          att \in AttackerChoices,
          present \in [Players -> BOOLEAN], hp \in [Players -> HpChoices] :
          /\ present[id] /\ hp[id] = Some(PLAYER_DEFAULT_HP)
          /\ tick = sc[2]
          /\ attack_events = << [seq_num |-> sc[1], id |-> id] >>
          /\ overflow_checks = st[2]
          /\ stats = [p \in Players |-> st[1]]
          /\ spu = [p \in Players |-> NewPowerUps]
          /\ pb = [p \in Players |->
                     AtTick(sc[1], IF p = id THEN (IF IsSome(att[1]) THEN Some(Home(p)) ELSE None)
                                   ELSE IF present[p] THEN Some(Home(p)) ELSE None)]
          /\ pb_time = [p \in Players |->
                     AtTick(sc[1], IF IsSome(Get(pb[p], sc[1])) THEN Some(sc[1]) ELSE None)]
          /\ db = [p \in Players |-> AtTick(sc[1], IF p = id THEN att[2] ELSE Some(0))]
          /\ eb = [p \in Players |-> AtTick(sc[1], IF p = id THEN Some(ATTACK_BITFLAG) ELSE None)]
          /\ hb = [p \in Players |-> AtTick(sc[2], hp[p])]
          /\ enemies = [e \in EnemyIds |->
                          [pb |-> AtTick(sc[1], en[1]), hb |-> AtTick(sc[2], en[2]),
                           last_attacker |-> None]]
          /\ chests = [ch \in ChestIds |-> [pos |-> ChestHome, current |-> 1]]
    /\ shield \in [Players -> BOOLEAN]

InitAttack ==
    /\ MidMatch
    /\ pending = {"attack_simulate"}
    /\ tf = [p \in Players |-> Home(p)]
    /\ powerups = << >>

SpecAttack == InitAttack /\ [][AttackSimulateSys]_vars

(* ------------------------------------------------ powerup_grab_simulate *)
DistanceBelow(a, b, len) ==
    (a.x - b.x) * (a.x - b.x) + (a.y - b.y) * (a.y - b.y) < len * len

(* lines 270-289: one player against one power-up *)
GrabBody(G, c, p, k) ==
    IF ~DistanceBelow(G.tf[p], G.powerups[k].pos, 32) THEN G
    ELSE LET kind == G.powerups[k].kind
             G1 == [G EXCEPT !.spu[p][kind] = SatAdd8(@, 1),
                             !.despawned = @ \cup {k}]
         IN IF kind = "Meat"
            THEN LET slot == Get(G1.hb[p], c)
                 IN IF ~IsSome(slot) THEN [G1 EXCEPT !.aborted = TRUE]
                    ELSE [G1 EXCEPT !.hb[p] = Set(@, c, Some(SatAdd8(Unwrap(slot), MEAT_VALUE)))]
            ELSE IF kind = "AttackSpeedUp"
            THEN [G1 EXCEPT !.cooldown[p] = @ + 1]
            ELSE G1

(* lines 268-291: every player against every power-up; the despawn        *)
(* commands are applied when the system has returned                      *)
RECURSIVE GrabLoop(_, _, _, _, _)
GrabLoop(G, c, ord, i, k) ==
    IF i > Len(ord) \/ G.aborted THEN G
    ELSE IF k > Len(G.powerups) THEN GrabLoop(G, c, ord, i + 1, 1)
    ELSE GrabLoop(GrabBody(G, c, ord[i], k), c, ord, i, k + 1)

Remaining(seq, gone) ==
    LET keep == {k \in 1 .. Len(seq) : k \notin gone}
        F[k \in 0 .. Len(seq)] ==
            IF k = 0 THEN << >>
            ELSE IF k \in keep THEN Append(F[k - 1], seq[k]) ELSE F[k - 1]
    IN F[Len(seq)]

PowerupGrabSimulateSys ==
    /\ ~aborted
    /\ Ready("powerup_grab_simulate")
    /\ LET G == GrabLoop([tf |-> tf, powerups |-> powerups, spu |-> spu, hb |-> hb,
                          cooldown |-> cooldown, aborted |-> FALSE, despawned |-> {}],
                         tick, order, 1, 1)
       IN /\ spu' = G.spu
          /\ hb' = G.hb
          /\ cooldown' = G.cooldown
          /\ aborted' = G.aborted
          /\ powerups' = IF G.aborted THEN powerups
                       ELSE Remaining(powerups, G.despawned)
          /\ last' = [op |-> "powerup_grab_simulate", c |-> tick, pre_hb |-> hb,
                      grabbed |-> G.despawned]
    /\ pending' = pending \ {"powerup_grab_simulate"}
    /\ UNCHANGED << tick, order, pb, db, eb, pb_time, shield, stats, enemies, chests,
                    attack_events, spawn_events, overflow_checks, alt, geo, dmg, calls,
                    tf,
                    is_host, local, health, notified, input, timer >>

(* a host state in which either of the two systems is about to run *)
InitAbsent ==
    /\ MidMatch
    /\ \E sys \in {"attack_simulate", "powerup_grab_simulate"} : pending = {sys}
    /\ tf = [p \in Players |-> Home(p)]
    /\ \E kind \in PowerUpTypes, at \in {Vec(10, 0), Vec(500, 0)} :
          powerups = << [kind |-> kind, pos |-> at] >>

SpecAbsent == InitAbsent /\ [][AttackSimulateSys \/ PowerupGrabSimulateSys]_vars

(* ============================ the host between and inside ticks ======= *)
(* PosBuffer::set_with_time: the slot is written and the tick that produced *)
(* the value is kept with it                                                *)
SetWithTime(buf, times, t, v, time) ==
    [buf |-> Set(buf, t, v), times |-> Set(times, t, Some(time))]

(* variant: the direction is written one slot late *)
ApplyUserCmdOffSlot(S, ev) ==
    IF ev.id \notin Players THEN S
    ELSE LET written == SetWithTime(S.pb[ev.id], S.pb_time[ev.id], ev.seq_num,
                                    Some(ev.tick.pos), ev.seq_num)
         IN [S EXCEPT
               !.pb[ev.id] = written.buf,
               !.pb_time[ev.id] = written.times,
               !.db[ev.id] = Set(@, ev.seq_num + 1, Some(ev.tick.dir)),
               !.eb[ev.id] = Set(@, ev.seq_num, Some(ev.tick.events)),
               !.attack_events = IF BitSet(ev.tick.events, ATTACK_BITFLAG)
                                 THEN Append(@, [seq_num |-> ev.seq_num, id |-> ev.id])
                                 ELSE @,
               !.spawn_events = IF BitSet(ev.tick.events, SPAWN_BITFLAG)
                                THEN Append(@, [id |-> ev.id])
                                ELSE @,
               !.shield[ev.id] = IF BitSet(ev.tick.events, SHIELD_BITFLAG) THEN TRUE ELSE @]

(* lines 717-731: one UserCmdEvent applied to the player it names *)
ApplyUserCmd(S, ev) ==
    IF ev.id \notin Players THEN S
    ELSE LET written == SetWithTime(S.pb[ev.id], S.pb_time[ev.id], ev.seq_num,
                                    Some(ev.tick.pos), ev.seq_num)
         IN [S EXCEPT
               !.pb[ev.id] = written.buf,
               !.pb_time[ev.id] = written.times,
               !.db[ev.id] = Set(@, ev.seq_num, Some(ev.tick.dir)),
               !.eb[ev.id] = Set(@, ev.seq_num, Some(ev.tick.events)),
               !.attack_events = IF BitSet(ev.tick.events, ATTACK_BITFLAG)
                                 THEN Append(@, [seq_num |-> ev.seq_num, id |-> ev.id])
                                 ELSE @,
               !.spawn_events = IF BitSet(ev.tick.events, SPAWN_BITFLAG)
                                THEN Append(@, [id |-> ev.id])
                                ELSE @,
               !.shield[ev.id] = IF BitSet(ev.tick.events, SHIELD_BITFLAG) THEN TRUE ELSE @]

(* lines 716-733: every UserCmdEvent of this frame, in arrival order *)
RECURSIVE ApplyUserCmds(_, _)
ApplyUserCmds(S, evs) ==
    IF evs = << >> THEN S
    ELSE ApplyUserCmds(ApplyUserCmd(S, Head(evs)), Tail(evs))

(* the FixedUpdate systems a client runs in this model (lines 97-103) *)
ClientSystems == {"shield_draw", "health_simulate"}
(* the host's FixedUpdate systems of this plugin (lines 91-96) *)
FixedSystems == {"attack_simulate", "spawn_simulate", "powerup_grab_simulate"}
Face(p) == IF p = 0 THEN 0 ELSE 1800
CmdEvents == {SPAWN_BITFLAG, ATTACK_BITFLAG + SPAWN_BITFLAG}
(* commands carry the sender's tick: the host's current tick or tick 0 *)
UserCmds ==
    {[id |-> p, seq_num |-> t, tick |-> [pos |-> Home(p), dir |-> Face(p), events |-> e]] :
        p \in Players, t \in {0, tick}, e \in CmdEvents}
(* a frame's UserCmdEvents: one command, delivered once or several times over *)
Copies == {1, 3}
Batch(cmd, k) == [i \in 1 .. k |-> cmd]

(* handle_usercmd_events, on the Update schedule of the host (lines 79-81) *)
HandleUsercmdEvents ==
    /\ ~aborted
    /\ pending = FixedSystems
    /\ calls < MaxCalls
    /\ \E cmd \in UserCmds, k \in Copies :
          LET S == ApplyUserCmds([pb |-> pb, pb_time |-> pb_time, db |-> db, eb |-> eb,
                                  attack_events |-> attack_events,
                                  spawn_events |-> spawn_events, shield |-> shield],
                                 Batch(cmd, k))
          IN /\ pb' = S.pb /\ pb_time' = S.pb_time /\ db' = S.db /\ eb' = S.eb
             /\ attack_events' = S.attack_events
             /\ spawn_events' = S.spawn_events
             /\ shield' = S.shield
             /\ last' = [op |-> "handle_usercmd_events", cmd |-> cmd, copies |-> k]
    /\ calls' = calls + 1
    /\ UNCHANGED << tick, order, hb, stats, spu, enemies, chests, aborted,
                    overflow_checks, pending, alt, geo, dmg, powerups, tf,
                    cooldown,
                    is_host, local, health, notified, input, timer >>

(* a spawn that fills only a slot nothing was written to *)
SpawnOneIfAbsent(buf, c) ==
    IF IsSome(Get(buf, c)) THEN buf ELSE Set(buf, c, Some(PLAYER_DEFAULT_HP))

(* line 602: full health into the slot of the current tick *)
SpawnOne(buf, c) == Set(buf, c, Some(PLAYER_DEFAULT_HP))

(* lines 599-605: spawn_simulate *)
RECURSIVE SpawnLoop(_, _, _)
SpawnLoop(H, evs, c) ==
    IF evs = << >> THEN H
    ELSE SpawnLoop([p \in Players |->
                       IF p # Head(evs).id THEN H[p] ELSE SpawnOne(H[p], c)],
                   Tail(evs), c)

SpawnSimulateSys ==
    /\ ~aborted
    /\ Ready("spawn_simulate")
    /\ hb' = SpawnLoop(hb, spawn_events, tick)
    /\ spawn_events' = << >>
    /\ pending' = pending \ {"spawn_simulate"}
    /\ last' = [op |-> "spawn_simulate", events |-> spawn_events]
    /\ UNCHANGED << tick, order, pb, db, eb, pb_time, shield, stats, spu, enemies,
                    chests, attack_events, aborted, overflow_checks, alt, geo, dmg, calls, powerups, tf,
                    cooldown,
                    is_host, local, health, notified, input, timer >>

(* the tick clock: the counter moves on once every fixed system has run *)
TickAdvance ==
    /\ ~aborted
    /\ pending = {}
    /\ tick < MaxTick
    /\ tick' = tick + 1
    /\ pending' = IF is_host THEN FixedSystems ELSE ClientSystems
    /\ last' = [op |-> "tick"]
    /\ UNCHANGED << order, pb, db, eb, hb, pb_time, shield, stats, spu, enemies, chests,
                    attack_events, spawn_events, aborted, overflow_checks, alt, geo,
                    dmg, calls, powerups, tf,
                    cooldown,
                    is_host, local, health, notified, input, timer >>

Init ==
    /\ InitPlayers /\ InitEvents
    /\ tick = 0
    /\ order = Identity
    /\ enemies = NoEnemies /\ chests = NoChests
    /\ aborted = FALSE /\ overflow_checks = FALSE
    /\ pending = FixedSystems
    /\ last = NoRun /\ alt = NoRun /\ calls = 0
    /\ geo = NoGeo /\ dmg = NoDmg
    /\ is_host = TRUE /\ local = 0

Next ==
    \/ HandleUsercmdEvents
    \/ AttackSimulateSys
    \/ SpawnSimulateSys
    \/ PowerupGrabSimulateSys
    \/ TickAdvance

Spec == Init /\ [][Next]_vars

(* ---- a host late in a match: tick 0 has left the capacity window ------ *)
LateTick == BufLen + 1
InitStale ==
    /\ InitPlayers /\ InitEvents
    /\ tick = LateTick
    /\ order = Identity
    /\ enemies = NoEnemies /\ chests = NoChests
    /\ aborted = FALSE /\ overflow_checks = FALSE
    /\ pending = FixedSystems
    /\ last = NoRun /\ alt = NoRun /\ calls = 0
    /\ geo = NoGeo /\ dmg = NoDmg
    /\ is_host = TRUE /\ local = 0

NextStale ==
    \/ HandleUsercmdEvents
    \/ AttackSimulateSys
    \/ SpawnSimulateSys
    \/ PowerupGrabSimulateSys

SpecStale == InitStale /\ [][NextStale]_vars

(* ============================ the client =============================== *)
(* ---- handle_player_ticks ---------------------------------------------- *)
(* variant: the pickup effects are applied whether or not the power-ups   *)
(* changed                                                                 *)
PickupEffectsAlways(S, id, prev) ==
    [S EXCEPT !.cooldown[id] = @ + S.spu[id]["AttackSpeedUp"],
              !.notified.pickup = @ + 1]

(* lines 672-682: cooldown and pickup sound when the power-ups changed *)
PickupEffects(S, id, prev) ==
    IF prev = S.spu[id] THEN S
    ELSE LET S1 == IF prev["AttackSpeedUp"] # S.spu[id]["AttackSpeedUp"]
                   THEN [S EXCEPT !.cooldown[id] = S.spu[id]["AttackSpeedUp"]]
                   ELSE S
         IN [S1 EXCEPT !.notified.pickup = @ + 1]

(* variant: the event slot and shield are written for the local player too *)
ApplyPlayerTickAll(S, ev, c, loc) ==
    LET id == ev.tick.id
        S1 == [S EXCEPT !.stats[id] = ev.tick.stats, !.spu[id] = ev.tick.powerups]
        S2 == PickupEffects(S1, id, S.spu[id])
    IN [S2 EXCEPT !.pb[id] = Set(@, ev.seq_num, Some(ev.tick.pos)),
                  !.hb[id] = Set(@, c, Some(ev.tick.hp)),
                  !.db[id] = Set(@, ev.seq_num, Some(ev.tick.dir)),
                  !.eb[id] = Set(@, ev.seq_num, Some(ev.tick.events)),
                  !.shield[id] = IF BitSet(ev.tick.events, SHIELD_BITFLAG) THEN TRUE ELSE @]

(* lines 667-693: one PlayerTickEvent applied to the player it names; c is *)
(* the client's current tick and loc the player that carries LocalPlayer   *)
ApplyPlayerTick(S, ev, c, loc) ==
    IF ev.tick.id \notin Players THEN S
    ELSE LET id == ev.tick.id
             S1 == [S EXCEPT !.stats[id] = ev.tick.stats, !.spu[id] = ev.tick.powerups]
             S2 == PickupEffects(S1, id, S.spu[id])
             S3 == [S2 EXCEPT !.pb[id] = Set(@, ev.seq_num, Some(ev.tick.pos)),
                              !.hb[id] = Set(@, c, Some(ev.tick.hp)),
                              !.db[id] = Set(@, ev.seq_num, Some(ev.tick.dir))]
         IN IF id = loc THEN S3
            ELSE [S3 EXCEPT
                    !.eb[id] = Set(@, ev.seq_num, Some(ev.tick.events)),
                    !.shield[id] = IF BitSet(ev.tick.events, SHIELD_BITFLAG) THEN TRUE ELSE @]

(* lines 665-695: every PlayerTickEvent of this frame, in arrival order *)
RECURSIVE ApplyPlayerTicks(_, _, _, _)
ApplyPlayerTicks(S, evs, c, loc) ==
    IF evs = << >> THEN S
    ELSE ApplyPlayerTicks(ApplyPlayerTick(S, Head(evs), c, loc), Tail(evs), c, loc)

(* what a snapshot may carry *)
Boosted == [NewPowerUps EXCEPT !["AttackSpeedUp"] = 1]
SnapshotLoads ==
    {[hp |-> PLAYER_DEFAULT_HP, events |-> 0, stats |-> NewStats, powerups |-> NewPowerUps],
     [hp |-> 0, events |-> SHIELD_BITFLAG, stats |-> Veteran, powerups |-> Boosted]}
(* snapshots arrive for the local player and for one remote player *)
SnapshotIds == {0, local}
PlayerTicks ==
    {[seq_num |-> t,
      tick |-> [id |-> p, pos |-> Home(p), dir |-> Face(p), hp |-> ld.hp,
                events |-> ld.events, stats |-> ld.stats, powerups |-> ld.powerups]] :
        p \in SnapshotIds, t \in {0, tick}, ld \in SnapshotLoads}
Deliveries == {1, 2}

ClientState ==
    [pb |-> pb, db |-> db, eb |-> eb, hb |-> hb, shield |-> shield, stats |-> stats,
     spu |-> spu, cooldown |-> cooldown, notified |-> notified]

(* handle_player_ticks, on the Update schedule of a client (line 89) *)
HandlePlayerTicks ==
    /\ ~aborted /\ ~is_host
    /\ calls < MaxCalls
    /\ \E snap \in PlayerTicks, k \in Deliveries :
          LET S == ApplyPlayerTicks(ClientState, Batch(snap, k), tick, local)
          IN /\ pb' = S.pb /\ db' = S.db /\ eb' = S.eb /\ hb' = S.hb
             /\ shield' = S.shield /\ stats' = S.stats /\ spu' = S.spu
             /\ cooldown' = S.cooldown /\ notified' = S.notified
             /\ last' = [op |-> "handle_player_ticks", snap |-> snap, copies |-> k]
    /\ calls' = calls + 1
    /\ UNCHANGED << tick, order, pb_time, enemies, chests, attack_events, spawn_events,
                    aborted, overflow_checks, pending, alt, geo, dmg, powerups, tf,
                    is_host, local, health, input, timer >>

(* a shield_input that drops every intent of the slot when the button is up *)
ShieldInputGroup(buf, c, pressed) ==
    LET slot == Get(buf, c)
        events == IF IsSome(slot) THEN Unwrap(slot) ELSE 0
    IN IF pressed
       THEN Set(buf, c, Some(IF BitSet(events, SHIELD_BITFLAG) THEN events
                             ELSE events + SHIELD_BITFLAG))
       ELSE Set(buf, c, Some(0))

(* ---- shield_input ------------------------------------------------------ *)
(* lines 561-569: the shield bit of the local player's event slot at the   *)
(* current tick follows the right mouse button                             *)
ShieldInput(buf, c, pressed) ==
    LET slot == Get(buf, c)
        events == IF IsSome(slot) THEN Unwrap(slot) ELSE 0
    IN IF pressed
       THEN Set(buf, c, Some(IF BitSet(events, SHIELD_BITFLAG) THEN events
                             ELSE events + SHIELD_BITFLAG))
       ELSE Set(buf, c, Some(IF BitSet(events, SHIELD_BITFLAG) THEN events - SHIELD_BITFLAG
                             ELSE events))

(* shield_input, on the Update schedule (line 84) *)
ShieldInputSys ==
    /\ ~aborted
    /\ calls < MaxCalls
    /\ local \in Players
    /\ \E pressed \in BOOLEAN :
          /\ eb' = [eb EXCEPT ![local] = ShieldInput(@, tick, pressed)]
          /\ last' = [op |-> "shield_input", pressed |-> pressed]
    /\ calls' = calls + 1
    /\ UNCHANGED << tick, order, pb, db, hb, pb_time, shield, stats, spu, enemies, chests,
                    attack_events, spawn_events, aborted, overflow_checks, pending, alt,
                    geo, dmg, powerups, tf, cooldown, is_host, local, health, notified,
                    input, timer >>

(* ---- shield_draw ------------------------------------------------------- *)
(* u16::saturating_sub on tick numbers *)
SatSubTick(a, b) == IF a >= b THEN a - b ELSE 0

(* line 581: the flag of one player, from its event buffer *)
ShieldOf(buf, c) ==
    LET slot == Get(buf, SatSubTick(c, DELAY))
    IN BitSet(IF IsSome(slot) THEN Unwrap(slot) ELSE 0, SHIELD_BITFLAG)

(* shield_draw, once per fixed tick (line 100) *)
ShieldDrawSys ==
    /\ ~aborted
    /\ Ready("shield_draw")
    /\ shield' = [p \in Players |-> ShieldOf(eb[p], tick)]
    /\ pending' = pending \ {"shield_draw"}
    /\ last' = [op |-> "shield_draw"]
    /\ UNCHANGED << tick, order, pb, db, eb, hb, pb_time, stats, spu, enemies, chests,
                    attack_events, spawn_events, aborted, overflow_checks, alt, geo, dmg,
                    calls, powerups, tf, cooldown, is_host, local, health, notified,
                    input, timer >>

(* ---- health_simulate --------------------------------------------------- *)
(* variant: the notifications follow the level of the health value *)
HealthStepLevel(h, slot, is_local) ==
    IF ~IsSome(slot) THEN [health |-> h, spawn |-> 0, death |-> 0]
    ELSE LET cur == Unwrap(slot)
         IN [health |-> [current |-> cur, max |-> PLAYER_DEFAULT_HP, dead |-> cur = 0],
             spawn |-> IF cur > 0 /\ is_local THEN 1 ELSE 0,
             death |-> IF cur = 0 /\ is_local THEN 1 ELSE 0]

(* a health_simulate that never takes the dead flag back *)
HealthStepNoRevive(h, slot, is_local) ==
    IF ~IsSome(slot) THEN [health |-> h, spawn |-> 0, death |-> 0]
    ELSE LET cur == Unwrap(slot)
         IN [health |-> [current |-> cur, max |-> PLAYER_DEFAULT_HP,
                         dead |-> h.dead \/ cur = 0],
             spawn |-> 0,
             death |-> IF cur = 0 /\ ~h.dead /\ is_local THEN 1 ELSE 0]

(* lines 617-638: one player; the result is its Health and the number of   *)
(* LocalPlayerSpawnEvents and LocalPlayerDeathEvents sent                  *)
HealthStep(h, slot, is_local) ==
    IF ~IsSome(slot) THEN [health |-> h, spawn |-> 0, death |-> 0]
    ELSE LET cur == Unwrap(slot)
             h1 == [h EXCEPT !.current = cur, !.max = PLAYER_DEFAULT_HP]
         IN IF cur > 0 /\ h1.dead
            THEN [health |-> [h1 EXCEPT !.dead = FALSE],
                  spawn |-> IF is_local THEN 1 ELSE 0, death |-> 0]
            ELSE IF cur = 0 /\ ~h1.dead
            THEN [health |-> [h1 EXCEPT !.dead = TRUE],
                  spawn |-> 0, death |-> IF is_local THEN 1 ELSE 0]
            ELSE [health |-> h1, spawn |-> 0, death |-> 0]

RECURSIVE SumOver(_, _)
SumOver(f, todo) ==
    IF todo = {} THEN 0
    ELSE LET x == CHOOSE y \in todo : TRUE IN f[x] + SumOver(f, todo \ {x})

(* health_simulate, once per fixed tick (line 101) *)
HealthSimulateSys ==
    /\ ~aborted
    /\ Ready("health_simulate")
    /\ LET step == [p \in Players |-> HealthStep(health[p], Get(hb[p], tick), p = local)]
       IN /\ health' = [p \in Players |-> step[p].health]
          /\ notified' = [notified EXCEPT
                            !.spawn = @ + SumOver([p \in Players |-> step[p].spawn], Players),
                            !.death = @ + SumOver([p \in Players |-> step[p].death], Players)]
    /\ pending' = pending \ {"health_simulate"}
    /\ last' = [op |-> "health_simulate"]
    /\ UNCHANGED << tick, order, pb, db, eb, hb, pb_time, shield, stats, spu, enemies,
                    chests, attack_events, spawn_events, aborted, overflow_checks, alt,
                    geo, dmg, calls, powerups, tf, cooldown, is_host, local, input, timer >>

(* a client after OnEnter(AppState::Game); the last player is the local one *)
InitClient ==
    /\ InitPlayers /\ InitEvents
    /\ tick = 0
    /\ order = Identity
    /\ enemies = NoEnemies /\ chests = NoChests
    /\ aborted = FALSE /\ overflow_checks = FALSE
    /\ pending = ClientSystems
    /\ last = NoRun /\ alt = NoRun /\ calls = 0
    /\ geo = NoGeo /\ dmg = NoDmg
    /\ is_host = FALSE /\ local = NumPlayers - 1

NextClient ==
    \/ HandlePlayerTicks
    \/ ShieldInputSys
    \/ ShieldDrawSys
    \/ HealthSimulateSys
    \/ TickAdvance

SpecClient == InitClient /\ [][NextClient]_vars

(* ===================== hit classification on drawn inputs ============== *)
GeoOrigins == {Vec(0, 0), Vec(10, -20)}
GeoVectors ==
    {Vec(0, 0), Vec(50, 0), Vec(90, 0), Vec(91, 0), Vec(-50, 0), Vec(-91, 0),
     Vec(0, 50), Vec(0, -50), Vec(0, 91), Vec(63, 63), Vec(64, 64), Vec(-63, 63),
     Vec(-63, -63), Vec(63, -63), Vec(-57, -1), Vec(-57, 1)}
GeoBearings == {Atan2(v.y, v.x) : v \in GeoVectors}
(* offsets between facing and bearing; exactly 70.0 degrees is left out: *)
(* which side of the f32 comparison it falls on is a matter of rounding  *)
GeoOffsets == {0, 1, -1, 20, 699, -699, 701, -701, 900, -900, 1800}
GeoAngles ==
    {SinAtan2Cos(b - o) : b \in GeoBearings, o \in GeoOffsets} \cup {3600, 2700, -2700}

GeoIdle ==
    /\ InitPlayers /\ InitEvents
    /\ tick = 0 /\ order = Identity /\ enemies = NoEnemies /\ chests = NoChests
    /\ aborted = FALSE /\ overflow_checks = FALSE /\ pending = {}
    /\ last = NoRun /\ alt = NoRun /\ calls = 0
    /\ is_host = TRUE /\ local = 0

InitGeo ==
    /\ GeoIdle
    /\ dmg = NoDmg
    /\ \E p \in GeoOrigins, v \in GeoVectors, a \in GeoAngles :
          geo = [done |-> FALSE, p |-> p, q |-> Vec(p.x + v.x, p.y + v.y), a |-> a]

Classify ==
    /\ ~geo.done
    /\ geo' = [done |-> TRUE, p |-> geo.p, q |-> geo.q, a |-> geo.a,
               enemy |-> EnemyInSwing(geo.p, geo.a, geo.q),
               chest |-> ChestInSwing(geo.p, geo.a, geo.q),
               target |-> TargetInSwing(geo.p, geo.a, geo.q)]
    /\ UNCHANGED << tick, order, pb, db, eb, hb, pb_time, shield, stats, spu,
                    enemies, chests, attack_events, spawn_events, aborted,
                    overflow_checks, pending, last, alt, dmg, calls, powerups, tf,
                    cooldown,
                    is_host, local, health, notified, input, timer >>

SpecGeo == InitGeo /\ [][Classify]_vars

(* ===================== damage arithmetic on drawn inputs =============== *)
InitDmg ==
    /\ GeoIdle
    /\ geo = NoGeo
    /\ \E h \in 0 .. U8_MAX, stacks \in 0 .. U8_MAX :
          dmg = [done |-> FALSE, h |-> h, stacks |-> stacks]

ApplyDamage ==
    /\ ~dmg.done
    /\ dmg' = [done |-> TRUE, h |-> dmg.h, stacks |-> dmg.stacks,
               damage |-> Damage(dmg.stacks),
               hp |-> HpAfterHit(dmg.h, dmg.stacks)]
    /\ UNCHANGED << tick, order, pb, db, eb, hb, pb_time, shield, stats, spu,
                    enemies, chests, attack_events, spawn_events, aborted,
                    overflow_checks, pending, last, alt, geo, calls, powerups, tf,
                    cooldown,
                    is_host, local, health, notified, input, timer >>

SpecDmg == InitDmg /\ [][ApplyDamage]_vars

(* ---- C4 ---------------------------------------------------------------- *)
(* C4: a target is hit exactly when it is within SWORD_LENGTH and the       *)
(* difference between facing and bearing, taken across the +-180 degree     *)
(* wrap, is at most 70 degrees; the rule is the same for players, enemies   *)
(* and chests.  Bearing a + 90 degrees is a miss, a + 0.1 degree a hit, and *)
(* facing 179 with bearing -179 a hit.                                      *)
WithinReach(p, q) ==
    (q.x - p.x) * (q.x - p.x) + (q.y - p.y) * (q.y - p.y) <= SWORD_LENGTH * SWORD_LENGTH
WithinCone(a, bearing) ==
    \E k \in -2 .. 2 : Abs(a - bearing + 3600 * k) <= 700
GeoBearing == Atan2(geo.q.y - geo.p.y, geo.q.x - geo.p.x)
C4_HitRule ==
    (geo.done /\ "target" \in DOMAIN geo) =>
        LET expected == WithinReach(geo.p, geo.q) /\ WithinCone(geo.a, GeoBearing)
        IN /\ geo.target = expected
           /\ geo.enemy = expected
           /\ geo.chest = expected
           /\ (\E k \in -1 .. 1 : GeoBearing = geo.a + 900 + 3600 * k) => ~geo.target
           /\ (WithinReach(geo.p, geo.q) /\ \E k \in -1 .. 1 : GeoBearing = geo.a + 1 + 3600 * k)
                 => geo.target
           /\ (WithinReach(geo.p, geo.q) /\ geo.a = 1790 /\ GeoBearing = -1790) => geo.target
C4_Witness ==
    /\ geo.done /\ "target" \in DOMAIN geo
    /\ geo.a = 1790 /\ GeoBearing = -1790 /\ geo.target /\ geo.enemy /\ geo.chest

(* ---- C5 ---------------------------------------------------------------- *)
(* C5: damage is min(255, 40 + min(255, stacks * DAMAGE_DEALT_UP)); the new *)
(* health is max(0, h - damage), lies in 0..h and never wraps; health 10    *)
(* taking 40 damage yields 0.                                               *)
Min(a, b) == IF a <= b THEN a ELSE b
Max(a, b) == IF a >= b THEN a ELSE b
C5_SaturatingDamage ==
    (dmg.done /\ "hp" \in DOMAIN dmg) =>
        /\ dmg.damage = Min(255, SWORD_DAMAGE + Min(255, dmg.stacks * DAMAGE_DEALT_UP))
        /\ dmg.hp = Max(0, dmg.h - dmg.damage)
        /\ dmg.hp \in 0 .. dmg.h
        /\ (dmg.h = 10 /\ dmg.stacks = 0) => (dmg.damage = 40 /\ dmg.hp = 0)
C5_Witness ==
    /\ dmg.done /\ "hp" \in DOMAIN dmg
    /\ dmg.h = 10 /\ dmg.stacks = 255 /\ dmg.damage = 255 /\ dmg.hp = 0

(* ===================== claims about one resolved AttackEvent =========== *)
Resolved == last.op = "attack_simulate" /\ "pre" \in DOMAIN last /\ last.events # << >>
TheEvent == Head(last.events)
(* the geometry of the pair at tick s, stated on the history before the run *)
WouldHit(W, s, A, B) ==
    /\ A # B
    /\ IsSome(Get(W.pb[A], s)) /\ IsSome(Get(W.db[A], s)) /\ IsSome(Get(W.pb[B], s))
    /\ LET p == Unwrap(Get(W.pb[A], s))
           q == Unwrap(Get(W.pb[B], s))
       IN /\ WithinReach(p, q)
          /\ WithinCone(Unwrap(Get(W.db[A], s)), Atan2(q.y - p.y, q.x - p.x))

(* ---- C1 ---------------------------------------------------------------- *)
(* C1: an AttackEvent {s, A} resolved at tick c, neither A nor B shielded,  *)
(* A's position and direction and B's position present at s, B in reach and *)
(* in the cone, B's health at c = h, no damage power-ups: afterwards B's     *)
(* health at c is max(0, h - 40), and if that is 0 A's players_killed has    *)
(* grown by 1 (here for a counter that still has room to grow).              *)
C1_EndToEndHit ==
    Resolved =>
        \A A \in Players, B \in Players :
            LET pre == last.pre
                s == TheEvent.seq_num
                c == last.c
            IN (/\ TheEvent.id = A
                /\ ~pre.shield[A] /\ ~pre.shield[B]
                /\ WouldHit(pre, s, A, B)
                /\ IsSome(Get(pre.hb[B], c))
                /\ pre.spu[A]["DamageDealtUp"] = 0
                /\ pre.stats[A].players_killed < U8_MAX)
               => LET h == Unwrap(Get(pre.hb[B], c))
                  IN /\ Get(hb[B], c) = Some(Max(0, h - 40))
                     /\ (Max(0, h - 40) = 0 =>
                            stats[A].players_killed = pre.stats[A].players_killed + 1)

(* ---- C2 ---------------------------------------------------------------- *)
(* C2 (as amended): resolving an AttackEvent of tick s at a tick c # s, a    *)
(* second run whose position and direction buffers agree at slot s and      *)
(* differ at every other slot, with the same health buffers and shields,    *)
(* hits exactly the same targets and ends the same way; the damage is        *)
(* written to the health slot at c and the slot at s keeps its value.        *)
C2_LagCompensation ==
    (Resolved /\ TheEvent.seq_num # last.c /\ "hits" \in DOMAIN alt) =>
        LET pre == last.pre
            s == TheEvent.seq_num
            c == last.c
        IN /\ alt.hits = last.hits
           /\ alt.aborted = aborted
           /\ \A p \in Players :
                /\ Get(hb[p], s) = Get(pre.hb[p], s)
                /\ << "player", p >> \in last.hits =>
                      /\ IsSome(Get(pre.hb[p], c))
                      /\ Get(hb[p], c) =
                            Some(Max(0, Unwrap(Get(pre.hb[p], c))
                                        - Damage(pre.spu[TheEvent.id]["DamageDealtUp"])))
           /\ \A e \in EnemyIds :
                /\ Get(enemies[e].hb, s) = Get(pre.enemies[e].hb, s)
                /\ << "enemy", e >> \in last.hits =>
                      Get(enemies[e].hb, c) # Get(pre.enemies[e].hb, c)
C2_Witness ==
    /\ Resolved /\ TheEvent.seq_num # last.c /\ "hits" \in DOMAIN alt
    /\ \E p \in Players : << "player", p >> \in last.hits
    /\ << "enemy", 0 >> \in last.hits
    /\ ~aborted
(* C2 as first stated: the second run may differ at slot c of the health    *)
(* buffers too, and still hits the same targets (runs that complete).       *)
C2_Original ==
    (Resolved /\ TheEvent.seq_num # last.c /\ "hits" \in DOMAIN alt
       /\ ~aborted /\ ~alt.aborted_hp) =>
        alt.hits_hp = last.hits

(* ---- C3 ---------------------------------------------------------------- *)
(* C3: with shield.active on the attacker nothing loses health, no stats    *)
(* change and no history is needed (the run completes whatever is absent);  *)
(* with shield.active on a target player its health buffer and stats are    *)
(* unchanged, and the attacker's stats are unchanged when every other        *)
(* player is shielded.                                                       *)
C3_ShieldCancels ==
    Resolved =>
        LET pre == last.pre
            A == TheEvent.id
        IN /\ pre.shield[A] =>
                /\ hb = pre.hb /\ stats = pre.stats
                /\ enemies = pre.enemies /\ chests = pre.chests
                /\ ~aborted /\ last.hits = {}
           /\ \A B \in Players \ {A} : pre.shield[B] =>
                /\ hb[B] = pre.hb[B]
                /\ stats[B] = pre.stats[B]
                /\ << "player", B >> \notin last.hits
           /\ (\A B \in Players \ {A} : pre.shield[B]) => stats[A] = pre.stats[A]
C3_Witness ==
    /\ Resolved
    /\ \E B \in Players :
          /\ last.pre.shield[B] /\ ~last.pre.shield[TheEvent.id]
          /\ WouldHit(last.pre, TheEvent.seq_num, TheEvent.id, B)
          /\ Get(hb[B], last.c) = Some(20)
    /\ << "chest", 0 >> \in last.hits

(* ---- C6 ---------------------------------------------------------------- *)
(* C6: whatever slot is absent (attacker position or direction at s, target *)
(* position at s, target or enemy health at c), attack_simulate runs to     *)
(* completion and leaves health and stats of that pair unchanged; and       *)
(* powerup_grab_simulate runs to completion when the health slot of the      *)
(* grabbing player at the current tick is absent.                            *)
C6_AbsentIsSkipped ==
    /\ Resolved =>
          LET pre == last.pre
              A == TheEvent.id
              s == TheEvent.seq_num
              c == last.c
          IN /\ ~aborted
             /\ \A B \in Players \ {A} :
                  (\/ ~IsSome(Get(pre.pb[A], s)) \/ ~IsSome(Get(pre.db[A], s))
                   \/ ~IsSome(Get(pre.pb[B], s)) \/ ~IsSome(Get(pre.hb[B], c)))
                  => (hb[B] = pre.hb[B] /\ stats[B] = pre.stats[B])
    /\ last.op = "powerup_grab_simulate" =>
          /\ ~aborted
          /\ \A p \in Players : ~IsSome(Get(last.pre_hb[p], last.c)) => hb[p] = last.pre_hb[p]

(* ---- C7 ---------------------------------------------------------------- *)
(* C7: when a kill is credited, the attacker's score and players_killed and *)
(* the target's deaths become min(255, old + increment), in either pass,    *)
(* and the run does not trap.                                               *)
KilledNow == {t \in Players : << "player", t >> \in last.hits /\ Get(hb[t], last.c) = Some(0)}
C7_StatsClamp ==
    Resolved =>
        \A B \in Players :
            KilledNow = {B} =>
                LET pre == last.pre
                    A == TheEvent.id
                IN /\ ~aborted
                   /\ stats[A].score = Min(U8_MAX, pre.stats[A].score + KILL_SCORE)
                   /\ stats[A].players_killed = Min(U8_MAX, pre.stats[A].players_killed + 1)
                   /\ stats[B].deaths = Min(U8_MAX, pre.stats[B].deaths + 1)

(* ===================== claims about the running host =================== *)
(* ---- C8 ---------------------------------------------------------------- *)
(* C8: from the stats of spawn_players on, whatever AttackEvents the host   *)
(* has resolved, every player has kd_ratio = players_killed when deaths = 0 *)
(* and kd_ratio = players_killed / deaths otherwise.                         *)
KdConsistent(st) ==
    IF st.deaths = 0
    THEN st.kd_ratio[1] = st.players_killed * st.kd_ratio[2]
    ELSE st.kd_ratio[1] * st.deaths = st.players_killed * st.kd_ratio[2]
C8_KdRatio == \A p \in Players : KdConsistent(stats[p])
C8_Witness ==
    /\ last.op = "attack_simulate"
    /\ \E p \in Players : stats[p].players_killed >= 1 /\ stats[p].deaths >= 1

(* ---- C9 ---------------------------------------------------------------- *)
(* C9: a run of handle_usercmd_events that applies a Command for (e, t)     *)
(* raises an AttackEvent only if the Command has the attack bit and the     *)
(* event slot of e at t did not have it yet, and then exactly one; applying *)
(* the same Command again raises none.                                      *)
C9_OneEventPerNewBit ==
    [][calls' = calls + 1 =>
          LET cmd == last'.cmd
              was == Get(eb[cmd.id], cmd.seq_num)
              newly == /\ BitSet(cmd.tick.events, ATTACK_BITFLAG)
                       /\ ~(IsSome(was) /\ BitSet(Unwrap(was), ATTACK_BITFLAG))
          IN Len(attack_events') - Len(attack_events) = IF newly THEN 1 ELSE 0]_vars

(* ---- C10 --------------------------------------------------------------- *)
(* C10: after handle_usercmd_events has applied a Command for (e, t), the   *)
(* position, direction and event buffers of e read at t give the Command's  *)
(* pos, dir and events; every other slot of e, every buffer of every other  *)
(* player and all health buffers are as before.                             *)
C10_RoundTrip ==
    [][calls' = calls + 1 =>
          LET cmd == last'.cmd
              e == cmd.id
              t == cmd.seq_num
          IN /\ Get(pb'[e], t) = Some(cmd.tick.pos)
             /\ Get(db'[e], t) = Some(cmd.tick.dir)
             /\ Get(eb'[e], t) = Some(cmd.tick.events)
             /\ \A i \in Slots : i # t % BufLen =>
                    /\ pb'[e][i] = pb[e][i]
                    /\ db'[e][i] = db[e][i]
                    /\ eb'[e][i] = eb[e][i]
             /\ \A p \in Players \ {e} :
                    pb'[p] = pb[p] /\ db'[p] = db[p] /\ eb'[p] = eb[p]
             /\ hb' = hb]_vars
C10_Witness ==
    /\ last.op = "handle_usercmd_events"
    /\ LET e == last.cmd.id
           t == last.cmd.seq_num
       IN /\ Get(pb[e], t) = Some(last.cmd.tick.pos)
          /\ Get(db[e], t) = Some(last.cmd.tick.dir)
          /\ Get(eb[e], t) = Some(last.cmd.tick.events)
          /\ \E i \in Slots : i # t % BufLen /\ IsSome(pb[e][i]) /\ IsSome(eb[e][i])

(* ===================== claims about the client ========================= *)
SnapshotStep == calls' = calls + 1 /\ last'.op = "handle_player_ticks"

(* ---- C11 --------------------------------------------------------------- *)
(* C11: after the client has applied a Snapshot for a remote entity e at    *)
(* tick t, whatever the client's current tick, the position, direction,     *)
(* event and health buffers of e at slot t hold the Snapshot's values, the  *)
(* stats and power-ups of e are the Snapshot's, and no other slot of e has  *)
(* changed.                                                                 *)
C11_SnapshotAtItsTick ==
    [][SnapshotStep =>
          LET snap == last'.snap
              e == snap.tick.id
              t == snap.seq_num
          IN e # local =>
                /\ Get(pb'[e], t) = Some(snap.tick.pos)
                /\ Get(db'[e], t) = Some(snap.tick.dir)
                /\ Get(eb'[e], t) = Some(snap.tick.events)
                /\ Get(hb'[e], t) = Some(snap.tick.hp)
                /\ stats'[e] = snap.tick.stats
                /\ spu'[e] = snap.tick.powerups
                /\ \A i \in Slots : i # t % BufLen =>
                      /\ pb'[e][i] = pb[e][i] /\ db'[e][i] = db[e][i]
                      /\ eb'[e][i] = eb[e][i] /\ hb'[e][i] = hb[e][i]]_vars

(* ---- C12 --------------------------------------------------------------- *)
(* C12: a Snapshot for the local player leaves every slot of its event      *)
(* buffer and its shield.active as they were; a Snapshot for a remote       *)
(* player writes that player's event slot; no Snapshot touches the event    *)
(* buffer of a player it does not name.                                      *)
C12_LocalIntentKept ==
    [][SnapshotStep =>
          LET snap == last'.snap
              e == snap.tick.id
          IN /\ e = local => (eb'[e] = eb[e] /\ shield'[e] = shield[e])
             /\ e # local => Get(eb'[e], snap.seq_num) = Some(snap.tick.events)
             /\ \A p \in Players \ {e} : eb'[p] = eb[p] /\ shield'[p] = shield[p]]_vars
C12_Witness ==
    /\ last.op = "handle_player_ticks"
    /\ last.snap.tick.id = local
    /\ BitSet(last.snap.tick.events, SHIELD_BITFLAG)
    /\ Get(eb[local], last.snap.seq_num) = Some(0)
    /\ ~shield[local]
    /\ Get(pb[local], last.snap.seq_num) = Some(last.snap.tick.pos)

Stale(cmd, c) == c - cmd.seq_num > BufLen
C14_StaleCommandInert ==
    /\ [][(calls' = calls + 1 /\ last'.op = "handle_usercmd_events" /\ Stale(last'.cmd, tick)) =>
             LET e == last'.cmd.id
                 t == last'.cmd.seq_num
             IN /\ ~aborted' /\ hb' = hb /\ stats' = stats
                /\ \A p \in Players \ {e} : pb'[p] = pb[p] /\ db'[p] = db[p] /\ eb'[p] = eb[p]
                /\ \A i \in Slots : i # t % BufLen =>
                      pb'[e][i] = pb[e][i] /\ db'[e][i] = db[e][i] /\ eb'[e][i] = eb[e][i]]_vars
    /\ [][(/\ last.op = "handle_usercmd_events" /\ Stale(last.cmd, tick) /\ calls = 1
           /\ pending' # pending)
          => (hb' = hb /\ stats' = stats)]_vars

(* ---- C15 --------------------------------------------------------------- *)
(* C15: after shield_draw has run at tick c, shield.active of a remote      *)
(* player is the shield bit of its event buffer at slot max(0, c - DELAY),  *)
(* that of the local player the shield bit of its event buffer at slot c;   *)
(* an absent slot counts as shield off.                                     *)
ShieldBitAt(buf, t) ==
    IsSome(Get(buf, t)) /\ BitSet(Unwrap(Get(buf, t)), SHIELD_BITFLAG)
C15_ShieldDerivation ==
    [][(last'.op = "shield_draw" /\ pending' # pending) =>
          \A p \in Players :
              shield'[p] = ShieldBitAt(eb[p], IF p = local THEN tick
                                              ELSE Max(0, tick - DELAY))]_vars

(* ---- C16 --------------------------------------------------------------- *)
(* C16: a run of health_simulate raises LocalPlayerDeathEvent exactly once  *)
(* when the health observed for the local player goes from positive to 0,   *)
(* LocalPlayerSpawnEvent exactly once when it goes from 0 to positive, and  *)
(* nothing while the value stays on its side, when the health slot of the   *)
(* tick is absent, or for a player that is not the local one.               *)
C16_EdgeTriggered ==
    [][(last'.op = "health_simulate" /\ pending' # pending) =>
          LET slot == Get(hb[local], tick)
              was == health[local].current
              rose == IsSome(slot) /\ was = 0 /\ Unwrap(slot) > 0
              fell == IsSome(slot) /\ was > 0 /\ Unwrap(slot) = 0
          IN /\ notified'.spawn - notified.spawn = IF rose THEN 1 ELSE 0
             /\ notified'.death - notified.death = IF fell THEN 1 ELSE 0
             /\ \A p \in Players :
                   IF IsSome(Get(hb[p], tick))
                   THEN health'[p].current = Unwrap(Get(hb[p], tick))
                   ELSE health'[p] = health[p]]_vars
C16_Witness ==
    /\ last.op = "health_simulate"
    /\ notified.spawn = 1 /\ notified.death = 1
    /\ health[local].dead /\ health[local].current = 0

(* ---- C17 --------------------------------------------------------------- *)
(* C17: in every order of the fixed-tick systems that the registered        *)
(* before/after constraints allow, attack_simulate has already run in the   *)
(* tick when spawn_simulate runs, so that a health slot written by          *)
(* spawn_simulate is never damaged afterwards in the same tick.             *)
C17_StageOrder ==
    [][(last'.op = "spawn_simulate" /\ pending' # pending) =>
          "attack_simulate" \notin pending]_vars

(* ------------------------------------------------- input capture (input.rs) *)
(* TickNum has the width of UserCmd::seq_num, which it is assigned to *)
TICK_MOD == 65536
Buttons == {"Left", "Right"}
Transitions == {[button |-> b, state |-> st] : b \in Buttons, st \in {"Pressed", "Released"}}
MaxEvents == 2
(* the MouseButtonInput events of one frame, in order of arrival *)
Frames == UNION {[1 .. n -> Transitions] : n \in 0 .. MaxEvents}

(* Input<MouseButton>::pressed(Left) once the frame's transitions are in *)
RECURSIVE PressedAfter(_, _)
PressedAfter(left, evs) ==
    IF evs = << >> THEN left
    ELSE PressedAfter(IF Head(evs).button = "Left" THEN Head(evs).state = "Pressed" ELSE left,
                      Tail(evs))

(* input.rs line 98: tick.0 - 1 on the unsigned tick, without the trap *)
TickMinusOne(c) == (c - 1 + TICK_MOD) % TICK_MOD
(* the subtraction overflows and the build checks for it *)
TickTrap(c, checks) == c = 0 /\ checks

(* input.rs lines 95-103: the loop over the frame's events *)
RECURSIVE MouseLoop(_, _, _)
MouseLoop(hist, evs, c) ==
    IF evs = << >> THEN hist
    ELSE IF Head(evs).button # "Left" THEN MouseLoop(hist, Tail(evs), c)
    ELSE LET pt == Get(hist, TickMinusOne(c))
             pt1 == [pt EXCEPT !.attack = (Head(evs).state = "Pressed")]
         IN MouseLoop(Set(hist, c, pt1), Tail(evs), c)

HasAttackButton(evs) == \E i \in 1 .. Len(evs) : evs[i].button = "Left"

(* handle_mouse_button_events, on the Update schedule (input.rs line 12) *)
HandleMouseButtonEvents ==
    /\ ~aborted
    /\ local \in Players
    /\ \E evs \in Frames :
          LET trap == HasAttackButton(evs) /\ TickTrap(tick, overflow_checks)
          IN /\ aborted' = trap
             /\ input' = IF trap THEN input
                         ELSE [hist |-> MouseLoop(input.hist, evs, tick),
                               left |-> PressedAfter(input.left, evs)]
             /\ last' = [op |-> "handle_mouse_button_events", events |-> evs,
                         read |-> IF HasAttackButton(evs) /\ ~trap
                                  THEN Some(TickMinusOne(tick)) ELSE None]
    /\ UNCHANGED << tick, order, pb, db, eb, hb, pb_time, shield, stats, spu, enemies,
                    chests, attack_events, spawn_events, overflow_checks, pending, alt,
                    geo, dmg, calls, powerups, tf, cooldown, is_host, local, health,
                    notified, timer >>

(* player.rs lines 305-317: the attack bit of the slot of the current tick *)
AttackInput(buf, c) ==
    LET slot == Get(buf, c)
    IN IF ~IsSome(slot) THEN Set(buf, c, Some(ATTACK_BITFLAG))
       ELSE Set(buf, c, Some(IF BitSet(Unwrap(slot), ATTACK_BITFLAG) THEN Unwrap(slot)
                             ELSE Unwrap(slot) + ATTACK_BITFLAG))

(* the frame times Time::delta can take, in the unit of DEFAULT_COOLDOWN *)
Deltas == 0 .. DEFAULT_COOLDOWN
(* line 303: Timer::tick of a TimerMode::Once timer *)
TimerTick(left, d) == IF left > d THEN left - d ELSE 0

(* attack_input, on the Update schedule (line 83): the timer advances by   *)
(* the frame time (line 303), gates the attack (lines 304-307) and starts  *)
(* over when the bit is set (line 317)                                     *)
AttackInputSys ==
    /\ ~aborted
    /\ local \in Players
    /\ \E d \in Deltas :
          LET left == TimerTick(timer, d)
              finished == left = 0
              fire == ~shield[local] /\ input.left /\ finished
          IN /\ eb' = IF fire THEN [eb EXCEPT ![local] = AttackInput(@, tick)] ELSE eb
             /\ timer' = IF fire THEN DEFAULT_COOLDOWN ELSE left
             /\ last' = [op |-> "attack_input", finished |-> finished]
    /\ UNCHANGED << tick, order, pb, db, hb, pb_time, shield, stats, spu, enemies, chests,
                    attack_events, spawn_events, aborted, overflow_checks, pending, alt,
                    geo, dmg, calls, powerups, tf, cooldown, is_host, local, health,
                    notified, input >>

(* a process whose frames deliver mouse transitions; either build profile *)
InitInput ==
    /\ InitPlayers /\ InitEvents
    /\ tick = 0
    /\ order = Identity
    /\ enemies = NoEnemies /\ chests = NoChests
    /\ aborted = FALSE /\ overflow_checks \in BOOLEAN
    /\ pending = {}
    /\ last = NoRun /\ alt = NoRun /\ calls = 0
    /\ geo = NoGeo /\ dmg = NoDmg
    /\ is_host = TRUE /\ local = 0

NextInput ==
    \/ HandleMouseButtonEvents
    \/ AttackInputSys
    \/ TickAdvance

SpecInput == InitInput /\ [][NextInput]_vars

MouseStep == last'.op = "handle_mouse_button_events" /\ last' # last

(* ---- C18 --------------------------------------------------------------- *)
(* C18: whenever the transitions of the attack button delivered to one run  *)
(* of handle_mouse_button_events contain a press, the input recorded for    *)
(* the current tick has attack set afterwards, a later release in the same  *)
(* sequence notwithstanding.                                                *)
C18_NoDroppedEdge ==
    [][(MouseStep /\ ~aborted'
          /\ \E i \in 1 .. Len(last'.events) :
                last'.events[i] = [button |-> "Left", state |-> "Pressed"])
       => Get(input'.hist, tick).attack]_vars

(* ---- C19 --------------------------------------------------------------- *)
(* C19: the earlier tick that input capture computes from the current tick  *)
(* is max(0, tick - 1): the subtraction neither traps nor wraps to a large  *)
(* tick, at tick 0 as at any other tick.                                    *)
C19_TickArithmeticSafe ==
    [][(MouseStep /\ HasAttackButton(last'.events))
       => /\ ~aborted'
          /\ last'.read = Some(Max(0, tick - 1))]_vars

(* ------------------------------------- spawn_simulate on a used buffer *)
(* a host in mid-match: the health slot of the current tick of each player *)
(* is absent, zero or positive, the other slots hold an older value, and   *)
(* handle_usercmd_events has sent up to MaxSpawns SpawnEvents              *)
MaxSpawns == 2
OlderHp == Some(30)
SpawnHpChoices == {None, Some(0), Some(20)}
SpawnBatches == UNION {[1 .. n -> {[id |-> p] : p \in Players}] : n \in 0 .. MaxSpawns}

InitSpawn ==
    /\ geo = NoGeo /\ dmg = NoDmg
    /\ aborted = FALSE /\ overflow_checks = FALSE
    /\ attack_events = << >>
    /\ cooldown = [p \in Players |-> 0]
    /\ health = [p \in Players |-> NewHealth]
    /\ input = NewInput /\ notified = NoNotes
    /\ timer = DEFAULT_COOLDOWN
    /\ is_host = TRUE /\ local = 0
    /\ last = NoRun /\ alt = NoRun /\ calls = 0
    /\ order = Identity
    /\ enemies = NoEnemies /\ chests = NoChests
    /\ pb = [p \in Players |-> NewBuffer]
    /\ db = [p \in Players |-> NewBuffer]
    /\ eb = [p \in Players |-> NewBuffer]
    /\ pb_time = [p \in Players |-> NewBuffer]
    /\ shield = [p \in Players |-> FALSE]
    /\ stats = [p \in Players |-> NewStats]
    /\ spu = [p \in Players |-> NewPowerUps]
    /\ tf = [p \in Players |-> Home(p)]
    /\ powerups = << >>
    /\ tick \in 0 .. MaxTick
    /\ pending = {"spawn_simulate"}
    /\ spawn_events \in SpawnBatches
    /\ \E hp \in [Players -> SpawnHpChoices] :
          hb = [p \in Players |-> Set([i \in Slots |-> OlderHp], tick, hp[p])]

NextSpawn ==
    \/ SpawnSimulateSys
    \/ TickAdvance

SpecSpawn == InitSpawn /\ [][NextSpawn]_vars

(* ---- C20 --------------------------------------------------------------- *)
(* C20: a run of spawn_simulate at tick c leaves PLAYER_DEFAULT_HP in the   *)
(* health slot at c of every player named by a SpawnEvent, whatever the     *)
(* slot held; every other slot of every health buffer is unchanged; the     *)
(* events are consumed, so that none is applied a second time.              *)
C20_Spawn ==
    [][(last'.op = "spawn_simulate" /\ pending' # pending) =>
          LET ids == {spawn_events[i].id : i \in 1 .. Len(spawn_events)}
          IN /\ \A p \in Players, i \in Slots :
                   hb'[p][i] = IF p \in ids /\ i = tick % BufLen
                               THEN Some(PLAYER_DEFAULT_HP) ELSE hb[p][i]
             /\ spawn_events' = << >>]_vars
C20_Witness ==
    /\ last.op = "spawn_simulate"
    /\ Len(last.events) = 2 /\ last.events[1] = last.events[2]
    /\ spawn_events = << >>
    /\ Get(hb[last.events[1].id], tick) = Some(PLAYER_DEFAULT_HP)
    /\ \E p \in Players : Get(hb[p], tick) = Some(0)
    /\ \A p \in Players : \A i \in Slots : i # tick % BufLen => hb[p][i] = OlderHp

(* ------------------------------ the two intent systems on a used slot *)
(* the local player's event slot of the current tick before the frame:     *)
(* never written, or any combination of the three intent bits              *)
EventChoices == {None} \cup {Some(v) : v \in 0 .. (2 * SHIELD_BITFLAG - 1)}

InitBits ==
    /\ geo = NoGeo /\ dmg = NoDmg
    /\ aborted = FALSE /\ overflow_checks = FALSE
    /\ attack_events = << >> /\ spawn_events = << >>
    /\ cooldown = [p \in Players |-> 0]
    /\ health = [p \in Players |-> NewHealth]
    /\ notified = NoNotes
    /\ is_host = TRUE /\ local = 0
    /\ last = NoRun /\ alt = NoRun /\ calls = 0
    /\ order = Identity
    /\ enemies = NoEnemies /\ chests = NoChests
    /\ pb = [p \in Players |-> NewBuffer]
    /\ db = [p \in Players |-> NewBuffer]
    /\ hb = [p \in Players |-> NewBuffer]
    /\ pb_time = [p \in Players |-> NewBuffer]
    /\ stats = [p \in Players |-> NewStats]
    /\ spu = [p \in Players |-> NewPowerUps]
    /\ tf = [p \in Players |-> Home(p)]
    /\ powerups = << >>
    /\ pending = {}
    /\ tick \in 0 .. MaxTick
    /\ shield \in [Players -> BOOLEAN]
    /\ \E left \in BOOLEAN : input = [NewInput EXCEPT !.left = left]
    /\ timer \in 0 .. DEFAULT_COOLDOWN
    /\ \E ev \in EventChoices :
          eb = [p \in Players |-> IF p = local THEN AtTick(tick, ev) ELSE NewBuffer]

NextBits ==
    \/ AttackInputSys
    \/ ShieldInputSys

SpecBits == InitBits /\ [][NextBits]_vars

(* ---- C21 --------------------------------------------------------------- *)
(* C21: a run of attack_input changes at most the attack bit, and a run of  *)
(* shield_input at most the shield bit, of the local player's event slot at *)
(* the current tick, an absent slot counting as 0; the shield bit follows   *)
(* the button, and no other slot and no other player's buffer is written.   *)
EventsOf(slot) == IF IsSome(slot) THEN Unwrap(slot) ELSE 0
SameBitsBut(flag, a, b) ==
    \A f \in {ATTACK_BITFLAG, SPAWN_BITFLAG, SHIELD_BITFLAG} \ {flag} :
        BitSet(EventsOf(a), f) = BitSet(EventsOf(b), f)
OnlySlotTouched ==
    \A p \in Players, i \in Slots :
        (p # local \/ i # tick % BufLen) => eb'[p][i] = eb[p][i]
C21_BitsIndependent ==
    /\ [][last'.op = "attack_input" =>
             /\ OnlySlotTouched
             /\ SameBitsBut(ATTACK_BITFLAG, Get(eb[local], tick), Get(eb'[local], tick))
             /\ (BitSet(EventsOf(Get(eb[local], tick)), ATTACK_BITFLAG)
                   => BitSet(EventsOf(Get(eb'[local], tick)), ATTACK_BITFLAG))]_vars
    /\ [][(last'.op = "shield_input" /\ calls' = calls + 1) =>
             /\ OnlySlotTouched
             /\ SameBitsBut(SHIELD_BITFLAG, Get(eb[local], tick), Get(eb'[local], tick))
             /\ IsSome(Get(eb'[local], tick))
             /\ BitSet(EventsOf(Get(eb'[local], tick)), SHIELD_BITFLAG) = last'.pressed]_vars
C21_Witness ==
    /\ last.op = "shield_input" /\ ~last.pressed
    /\ input.left /\ ~shield[local]
    /\ Get(eb[local], tick) = Some(ATTACK_BITFLAG + SPAWN_BITFLAG)

(* ------------------------------------------- MOVE_VECTORS (input.rs) ----- *)
(* a component of a Vec2 of the table, kept exactly: its sign and twice    *)
(* its square (0 for 0., 2 for 1., 1 for DIAG = SQRT_2 / 2)                *)
Comp(sign, sq2) == [sign |-> sign, sq2 |-> sq2]
Zero == Comp(0, 0)
One == Comp(1, 2)
NegOne == Comp(-1, 2)
DIAG == Comp(1, 1)
NegDIAG == Comp(-1, 1)
Vec2(x, y) == [x |-> x, y |-> y]

(* the table with the two opposite vertical keys adding up instead of cancelling *)
MoveVectorNoCancel(m) ==
    << Vec2(Zero, Zero), Vec2(Zero, One), Vec2(Zero, NegOne), Vec2(Zero, One),
       Vec2(NegOne, Zero), Vec2(NegDIAG, DIAG), Vec2(NegDIAG, NegDIAG), Vec2(NegDIAG, DIAG),
       Vec2(One, Zero), Vec2(DIAG, DIAG), Vec2(DIAG, NegDIAG), Vec2(DIAG, DIAG),
       Vec2(Zero, Zero), Vec2(Zero, One), Vec2(Zero, NegOne), Vec2(Zero, One) >>[m + 1]

(* input.rs lines 68-85: MOVE_VECTORS[m], entry by entry *)
MoveVector(m) ==
    << Vec2(Zero, Zero),        \* 0000
       Vec2(Zero, One),         \* 0001
       Vec2(Zero, NegOne),      \* 0010
       Vec2(Zero, Zero),        \* 0011
       Vec2(NegOne, Zero),      \* 0100
       Vec2(NegDIAG, DIAG),     \* 0101
       Vec2(NegDIAG, NegDIAG),  \* 0110
       Vec2(NegOne, Zero),      \* 0111
       Vec2(One, Zero),         \* 1000
       Vec2(DIAG, DIAG),        \* 1001
       Vec2(DIAG, NegDIAG),     \* 1010
       Vec2(One, Zero),         \* 1011
       Vec2(Zero, Zero),        \* 1100
       Vec2(Zero, One),         \* 1101
       Vec2(Zero, NegOne),      \* 1110
       Vec2(Zero, Zero)         \* 1111
    >>[m + 1]

Masks == 0 .. 15

(* every player's direction mask of the frame; nothing looked up yet *)
InitMove ==
    /\ GeoIdle
    /\ dmg = NoDmg
    /\ \E ms \in [Players -> Masks] :
          geo = [done |-> FALSE, masks |-> ms, movement |-> [p \in Players |-> None]]

(* the movement vector of one player is read from the table *)
MoveLookup ==
    /\ ~geo.done
    /\ \E p \in Players :
          /\ ~IsSome(geo.movement[p])
          /\ geo' = [geo EXCEPT !.movement[p] = Some(MoveVector(geo.masks[p]))]
    /\ UNCHANGED << tick, order, pb, db, eb, hb, pb_time, shield, stats, spu,
                    enemies, chests, attack_events, spawn_events, aborted,
                    overflow_checks, pending, last, alt, dmg, calls, powerups, tf,
                    cooldown, is_host, local, health, notified, input, timer >>

SpecMove == InitMove /\ [][MoveLookup]_vars

(* ---- C22 --------------------------------------------------------------- *)
(* C22: for each of the 16 masks (bit 0 up, bit 1 down, bit 2 left, bit 3   *)
(* right) the table entry is the sum of the directions of the set bits      *)
(* scaled to unit length, or the zero vector when the sum is zero: opposite *)
(* keys cancel, every entry has length 0 or 1, and both components of a     *)
(* diagonal entry have magnitude sqrt(2)/2.                                 *)
KeyBit(m, b) == IF BitSet(m, b) THEN 1 ELSE 0
SumX(m) == KeyBit(m, 8) - KeyBit(m, 4)
SumY(m) == KeyBit(m, 1) - KeyBit(m, 2)
Sign(v) == IF v > 0 THEN 1 ELSE IF v < 0 THEN -1 ELSE 0
Normalized(x, y) ==
    IF x = 0 /\ y = 0 THEN Vec2(Zero, Zero)
    ELSE Vec2(Comp(Sign(x), (2 * x * x) \div (x * x + y * y)),
              Comp(Sign(y), (2 * y * y) \div (x * x + y * y)))
C22_MoveTable ==
    \A p \in Players :
        IsSome(geo.movement[p]) =>
            LET m == geo.masks[p]
                v == Unwrap(geo.movement[p])
            IN /\ v = Normalized(SumX(m), SumY(m))
               /\ v.x.sq2 + v.y.sq2 \in {0, 2}
               /\ (SumX(m) # 0 /\ SumY(m) # 0) => (v.x.sq2 = 1 /\ v.y.sq2 = 1)
C22_Witness ==
    /\ \A p \in Players : IsSome(geo.movement[p])
    /\ \E p \in Players : geo.masks[p] = 7 /\ Unwrap(geo.movement[p]) = Vec2(NegOne, Zero)
    /\ \E p \in Players : geo.masks[p] = 10 /\ Unwrap(geo.movement[p]) = Vec2(DIAG, NegDIAG)

(* ------------------------------------------- a held attack button ------ *)
(* the left button went down once before the first frame and stays down:  *)
(* no MouseButtonInput arrives, frames and ticks go by                     *)
InitHold ==
    /\ geo = NoGeo /\ dmg = NoDmg
    /\ aborted = FALSE /\ overflow_checks = FALSE
    /\ attack_events = << >> /\ spawn_events = << >>
    /\ cooldown = [p \in Players |-> 0]
    /\ health = [p \in Players |-> NewHealth]
    /\ notified = NoNotes
    /\ is_host = TRUE /\ local = 0
    /\ last = NoRun /\ alt = NoRun /\ calls = 0
    /\ order = Identity
    /\ enemies = NoEnemies /\ chests = NoChests
    /\ pb = [p \in Players |-> NewBuffer]
    /\ db = [p \in Players |-> NewBuffer]
    /\ eb = [p \in Players |-> NewBuffer]
    /\ hb = [p \in Players |-> NewBuffer]
    /\ pb_time = [p \in Players |-> NewBuffer]
    /\ stats = [p \in Players |-> NewStats]
    /\ spu = [p \in Players |-> NewPowerUps]
    /\ tf = [p \in Players |-> Home(p)]
    /\ powerups = << >>
    /\ pending = {}
    /\ tick = 0
    /\ shield \in [Players -> BOOLEAN]
    /\ input = [NewInput EXCEPT !.left = TRUE]
    /\ timer \in 0 .. DEFAULT_COOLDOWN

NextHold ==
    \/ AttackInputSys
    \/ ShieldInputSys
    \/ TickAdvance

SpecHold == InitHold /\ [][NextHold]_vars

(* ---- C23 --------------------------------------------------------------- *)
(* C23: while the attack button stays down after one press, that press      *)
(* produces the attack bit of one tick only: at no time do the slots of two *)
(* different ticks of the local player's event buffer carry the attack bit. *)
C23_OnePressOneAttack ==
    Cardinality({i \in Slots : BitSet(EventsOf(eb[local][i]), ATTACK_BITFLAG)}) <= 1

(* ---- C24 --------------------------------------------------------------- *)
(* C24: for every player, from creation on and after every run of           *)
(* health_simulate, Health.dead is true exactly when Health.current is 0;   *)
(* a run at a tick whose health slot is absent leaves the player's Health   *)
(* as it was.                                                               *)
C24_DeadTracksHealth ==
    /\ [](\A p \in Players : health[p].dead <=> (health[p].current = 0))
    /\ [][last'.op = "health_simulate" =>
             \A p \in Players :
                 ~IsSome(Get(hb[p], tick)) => health'[p] = health[p]]_vars
C24_Witness ==
    /\ last.op = "health_simulate"
    /\ tick = MaxTick
    /\ \E p \in Players :
          /\ ~IsSome(Get(hb[p], tick))
          /\ health[p].current > 0 /\ ~health[p].dead

(* ---- C25 --------------------------------------------------------------- *)
(* C25: one AttackEvent, resolved over the two passes in whatever order the *)
(* players are iterated, lowers the health slot at the current tick of each *)
(* other player by at most one damage amount, raises each target's deaths   *)
(* and the attacker's kills by at most one per target, and leaves the       *)
(* attacker's own health buffer as it was.                                  *)
DiedNow(B) == stats[B].deaths # last.pre.stats[B].deaths
C25_OneDamagePerTarget ==
    Resolved =>
        LET pre == last.pre
            A == TheEvent.id
            c == last.c
        IN /\ hb[A] = pre.hb[A]
           /\ \A B \in Players \ {A} :
                 /\ \/ hb[B] = pre.hb[B]
                    \/ /\ IsSome(Get(pre.hb[B], c))
                       /\ hb[B] = Set(pre.hb[B], c,
                                      Some(HpAfterHit(Unwrap(Get(pre.hb[B], c)),
                                                      pre.spu[A]["DamageDealtUp"])))
                 /\ stats[B].deaths - pre.stats[B].deaths \in {0, 1}
           /\ stats[A].players_killed - pre.stats[A].players_killed
                 <= Cardinality({B \in Players \ {A} : DiedNow(B)})
C25_Witness ==
    /\ Resolved /\ ~aborted
    /\ \E B \in Players \ {TheEvent.id} :
          /\ << "player", B >> \in last.hits
          /\ Get(last.pre.hb[B], last.c) = Some(PLAYER_DEFAULT_HP)
          /\ Get(hb[B], last.c) = Some(PLAYER_DEFAULT_HP - SWORD_DAMAGE)
          /\ \E i, j \in 1 .. Len(order) : i < j /\ order[i] = B /\ order[j] = TheEvent.id

(* ---- C26 --------------------------------------------------------------- *)
(* C26: a resolved AttackEvent raises a target's deaths, and the attacker's *)
(* players_killed, only for a target whose health at the current tick it    *)
(* brought from a positive value to 0: a hit on a target already at 0 and a *)
(* hit that leaves the target alive change no counter.                      *)
KilledBy(B) ==
    /\ IsSome(Get(last.pre.hb[B], last.c))
    /\ Unwrap(Get(last.pre.hb[B], last.c)) > 0
    /\ Get(hb[B], last.c) = Some(0)
C26_KillCreditOnlyForKill ==
    (Resolved /\ ~aborted) =>
        LET pre == last.pre
            A == TheEvent.id
        IN /\ \A B \in Players \ {A} : DiedNow(B) => KilledBy(B)
           /\ stats[A].players_killed # pre.stats[A].players_killed
                 => \E B \in Players \ {A} : KilledBy(B)

(* ------------------------------------------------------- attack_host --- *)
(* lines 326-336: the events attack_host sends for the local player pl *)
AttackHost(evs, buf, active, c) ==
    IF active THEN evs
    ELSE LET events == Get(buf, c)
         IN IF ~IsSome(events) THEN evs
            ELSE IF BitSet(Unwrap(events), ATTACK_BITFLAG)
            THEN Append(evs, [seq_num |-> c, id |-> 0])
            ELSE evs

(* attack_host, on FixedUpdate of the host, before attack_simulate (line 92) *)
AttackHostSys ==
    /\ ~aborted
    /\ is_host
    /\ Ready("attack_host")
    /\ attack_events' = IF local \in Players
                        THEN AttackHost(attack_events, eb[local], shield[local], tick)
                        ELSE attack_events
    /\ pending' = pending \ {"attack_host"}
    /\ last' = [op |-> "attack_host"]
    /\ UNCHANGED << tick, order, pb, db, eb, hb, pb_time, shield, stats, spu, enemies,
                    chests, spawn_events, aborted, overflow_checks, alt, geo, dmg, calls,
                    powerups, tf, cooldown, is_host, local, health, notified, input,
                    timer >>

(* the values of the PlayerId resource on a host: the resource is created  *)
(* outside this file (handle_id_events, lines 698-705, sets it on clients  *)
(* only), so every player id is taken                                      *)
HostIds == Players

(* a host after spawn_players, which puts LocalPlayer on the player whose  *)
(* id is PlayerId (lines 167-169); the local event slot of the tick holds  *)
(* what the frame's input systems left there                               *)
InitHost ==
    /\ geo = NoGeo /\ dmg = NoDmg
    /\ aborted = FALSE /\ overflow_checks = FALSE
    /\ attack_events = << >> /\ spawn_events = << >>
    /\ cooldown = [p \in Players |-> 0]
    /\ health = [p \in Players |-> NewHealth]
    /\ notified = NoNotes
    /\ input = NewInput /\ timer = DEFAULT_COOLDOWN
    /\ is_host = TRUE
    /\ last = NoRun /\ alt = NoRun /\ calls = 0
    /\ order = Identity
    /\ enemies = NoEnemies /\ chests = NoChests
    /\ pb = [p \in Players |-> NewBuffer]
    /\ db = [p \in Players |-> NewBuffer]
    /\ hb = [p \in Players |-> NewBuffer]
    /\ pb_time = [p \in Players |-> NewBuffer]
    /\ stats = [p \in Players |-> NewStats]
    /\ spu = [p \in Players |-> NewPowerUps]
    /\ tf = [p \in Players |-> Home(p)]
    /\ powerups = << >>
    /\ pending = {"attack_host"}
    /\ tick \in 0 .. MaxTick
    /\ local \in HostIds
    /\ shield \in [Players -> BOOLEAN]
    /\ \E ev \in EventChoices :
          eb = [p \in Players |-> IF p = local THEN AtTick(tick, ev) ELSE NewBuffer]

SpecHost == InitHost /\ [][AttackHostSys]_vars

====
